---- MODULE Spec2Model ----
(***************************************************************************)
(* Server supervisor of the desktop shell                                  *)
(* (packages/desktop/src-tauri/src/server.rs, lib.rs, config.rs).          *)
(*                                                                         *)
(* ServerState holds three independently locked fields: child,             *)
(* desktop_token and port.  The tauri commands start_server, stop_server,  *)
(* get_server_status, get_desktop_token and get_server_port run as tasks   *)
(* of a multi-threaded runtime, so their lock-delimited sections           *)
(* interleave; kill_sync runs on the main thread from the exit hook.       *)
(* Every action below is one lock-delimited section (or one lock           *)
(* acquisition when a guard stays held) of the command it belongs to; the  *)
(* code a command runs between two such sections touches no shared state   *)
(* and belongs to the action that follows it.                              *)
(*                                                                         *)
(* Environment: backend processes may exit on their own; spawning and      *)
(* binding may fail.  try_wait and kill on a child the supervisor still    *)
(* owns and has not reaped do not fail, so their Err arms are not          *)
(* modelled.  Development and production mode inject the same PORT and     *)
(* DESKTOP_AUTH_TOKEN and differ only in the command line, so the mode is  *)
(* not part of the state.                                                  *)
(*                                                                         *)
(* Terminal bridge (packages/desktop/src-tauri/src/pty.rs).  PtyState      *)
(* holds writer, master and alive, each behind its own mutex.  spawn_pty,  *)
(* write_pty, resize_pty and kill_pty run as tasks of the same runtime;    *)
(* every successful spawn_pty starts one reader thread.  The bridge and    *)
(* the supervisor share no state, so the bridge has its own next-state     *)
(* relation (PtyNext, PtySpec) over its own variables; the tasks, pc and   *)
(* resp are common to both.  LockSpec is the locking skeleton of all       *)
(* operations of both parts: for each operation the order in which it      *)
(* acquires and releases the six mutexes and where it blocks.              *)
(***************************************************************************)
EXTENDS Integers, FiniteSets, Sequences, TLC

\* ---------------------------------------------------------------- bounds
NumTasks == 2      \* concurrently running command invocations
MaxProcs == 2      \* backend processes spawned in one run of the application
NumTokens == 2     \* distinct values generate_token may draw
MaxSessions == 2   \* pseudo-terminals opened in one run of the application
MaxInput == 3      \* bytes write_pty calls hand to the pseudo-terminals in all

\* ------------------------------------------------------- program constants
None == -1                 \* Option::None of child, desktop_token and port
MaxPort == 65535           \* largest u16

Tasks == 1..NumTasks
Procs == 1..MaxProcs
Tokens == 1..NumTokens
ConfigPorts == {8080}            \* sample of a user-specified port override
EphemeralPorts == {1, MaxPort}   \* extremes of what bind("127.0.0.1:0") may report

Fields == {"child", "token", "port"}

Sessions == 1..MaxSessions
PtyFields == {"writer", "master", "alive"}
InitialSize == <<80, 24>>               \* cols, rows given to openpty
Geoms == {InitialSize, <<132, 43>>}     \* geometries a caller may ask for
Datas == {<<1, 2>>, <<3>>}              \* byte strings a caller may write

\* start, get_port, get_status, stop, get_port, get_status: the scenario of
\* the specification's section 8, which scen follows.
ScenarioOps == <<"start_server", "get_server_port", "get_server_status",
                 "stop_server", "get_server_port", "get_server_status">>

VARIABLES
    child,          \* ServerState.child: None or the pid of the owned Child
    desktop_token,  \* ServerState.desktop_token
    port,           \* ServerState.port
    lockOwner,      \* per field mutex: 0 = free, otherwise the task holding it
    cfgPort,        \* AppConfig.port as persisted in config.json
    procState,      \* per pid: unspawned | running | exited | reaped | killed
    procEnv,        \* per pid: PORT and DESKTOP_AUTH_TOKEN given at spawn
    termSent,       \* pids whose process group was sent SIGTERM by kill_sync
    appExit,        \* RunEvent::Exit has been handled
    pc,             \* per task: position inside its command, or "idle"
    resp,           \* the response the last step returned to the dispatch layer
    l_cfg,          \* start_server local: cfg.port as loaded
    l_token,        \* start_server local: token
    l_port,         \* start_server local: port
    l_child,        \* start_server local: child; stop_server local: child
    scen,           \* observer: k + 1 while the run so far is exactly the
                    \* first k commands of ScenarioOps, one after the other,
                    \* with no port configured, no failure and no exit of the
                    \* backend on its own; 0 once it is not
    writer,         \* PtyState.writer: None or the session whose writer it is
    master,         \* PtyState.master: None or the session whose master it is
    alive,          \* PtyState.alive
    ptyLock,        \* per PtyState mutex: 0 = free, otherwise the task holding it
    opened,         \* sessions whose pseudo-terminal has been opened
    reader,         \* per session: position of its reader thread
    input,          \* per session: the bytes its child has been handed
    geometry,       \* per session: cols and rows of its pseudo-terminal
    exits,          \* per session: number of "pty-exit" events emitted for it
    p_sid,          \* spawn_pty local: pair (the session it opened)
    p_data,         \* write_pty argument: data
    p_n,            \* write_pty: bytes of data write_all has written so far
    p_base,         \* observer: input of the session when write_pty took the lock
    solo,           \* observer: no two terminal commands have overlapped
                    \* since the last one was issued with none in flight
    req,            \* the argument of the resize_pty call resp answers
    lkOp,           \* locking skeleton, per thread: the operation it runs
    lkPos,          \* locking skeleton, per thread: its next step in LockScript
    lkOwner         \* locking skeleton, per mutex: 0 = free, else the holder

serverVars == <<child, desktop_token, port, lockOwner, cfgPort, procState,
                procEnv, termSent, appExit, scen>>
ptyShared == <<writer, master, alive, ptyLock>>
ptyEnv == <<opened, reader, input, geometry, exits>>
ptyLocals == <<p_sid, p_data, p_n, p_base>>
ptyVars == <<ptyShared, ptyEnv, ptyLocals, solo, req>>

lockVars == <<lkOp, lkPos, lkOwner>>
notServer == <<ptyVars, lockVars>>     \* what no supervisor step touches

vars == <<child, desktop_token, port, lockOwner, cfgPort, procState,
          procEnv, termSent, appExit, pc, resp,
          l_cfg, l_token, l_port, l_child, scen, ptyVars, lockVars>>

shared == <<child, desktop_token, port, lockOwner>>
env == <<cfgPort, procState, procEnv, termSent, appExit>>
locals == <<l_cfg, l_token, l_port, l_child>>

NoEnv == [port |-> None, token |-> None]
NoResp == [op |-> "none", result |-> "none", retval |-> None]
NoReq == <<>>

\* ServerState::new, PtyState::new and the state of the application at launch.
Init ==
    /\ child = None
    /\ desktop_token = None
    /\ port = None
    /\ lockOwner = [f \in Fields |-> 0]
    /\ cfgPort \in ConfigPorts \cup {None}
    /\ procState = [p \in Procs |-> "unspawned"]
    /\ procEnv = [p \in Procs |-> NoEnv]
    /\ termSent = {}
    /\ appExit = FALSE
    /\ pc = [t \in Tasks |-> "idle"]
    /\ resp = NoResp
    /\ l_cfg = [t \in Tasks |-> None]
    /\ l_token = [t \in Tasks |-> None]
    /\ l_port = [t \in Tasks |-> None]
    /\ l_child = [t \in Tasks |-> None]
    /\ scen = IF cfgPort = None THEN 1 ELSE 0
    /\ writer = None
    /\ master = None
    /\ alive = FALSE
    /\ ptyLock = [f \in PtyFields |-> 0]
    /\ opened = {}
    /\ reader = [s \in Sessions |-> "none"]
    /\ input = [s \in Sessions |-> <<>>]
    /\ geometry = [s \in Sessions |-> InitialSize]
    /\ exits = [s \in Sessions |-> 0]
    /\ p_sid = [t \in Tasks |-> None]
    /\ p_data = [t \in Tasks |-> <<>>]
    /\ p_n = [t \in Tasks |-> 0]
    /\ p_base = [t \in Tasks |-> <<>>]
    /\ solo = TRUE
    /\ req = NoReq
    /\ lkOp = [t \in Tasks |-> "idle"]
    /\ lkPos = [t \in Tasks |-> 1]
    /\ lkOwner = [f \in Fields \cup PtyFields |-> 0]

\* ------------------------------------------------------------- helpers

Quiescent == \A t \in Tasks : pc[t] = "idle"

\* The dispatch layer starts command o on a free task.
Begin(t, o) ==
    /\ pc[t] = "idle"
    /\ ~appExit
    /\ scen' = IF scen \in 1..Len(ScenarioOps) /\ Quiescent /\ ScenarioOps[scen] = o
                 THEN scen + 1
                 ELSE 0

\* Command o of task t returns result r and, for a getter, value v.
Return(t, o, r, v) ==
    /\ pc' = [pc EXCEPT ![t] = "idle"]
    /\ resp' = [op |-> o, result |-> r, retval |-> v]
    /\ l_cfg' = [l_cfg EXCEPT ![t] = None]
    /\ l_token' = [l_token EXCEPT ![t] = None]
    /\ l_port' = [l_port EXCEPT ![t] = None]
    /\ l_child' = [l_child EXCEPT ![t] = None]

\* A task moves on inside its command; nothing is returned.
Goto(t, label) ==
    /\ pc' = [pc EXCEPT ![t] = label]
    /\ resp' = NoResp

\* The guards a returning task still holds are dropped.
Released(t) == [f \in Fields |-> IF lockOwner[f] = t THEN 0 ELSE lockOwner[f]]

\* Dropping a Child built without kill_on_drop: the process is left alone.
DropChild_NoKill(ps, c) == ps

\* Dropping a tokio Child built with kill_on_drop(true): a process that is
\* still running is killed; one that already exited is left as it is.
DropChild(ps, c) ==
    IF c # None /\ ps[c] = "running" THEN [ps EXCEPT ![c] = "killed"] ELSE ps

\* Child::kill().await: SIGKILL, then wait (which reaps).
KillAndWait(ps, c) ==
    [ps EXCEPT ![c] = IF ps[c] = "running" THEN "killed" ELSE "reaped"]

\* try_wait reports an exit status once the process has terminated.
HasExited(ps, c) == ps[c] # "running"

\* A process that was killed or reaped is gone, and its environment with it.
Gone(ps) == {p \in Procs : ps[p] \in {"killed", "reaped"}}
EnvAfter(ps, pe) == [p \in Procs |-> IF p \in Gone(ps) THEN NoEnv ELSE pe[p]]

Unspawned == {p \in Procs : procState[p] = "unspawned"}
NextPid == CHOOSE p \in Unspawned : \A q \in Unspawned : p <= q

\* --------------------------------------------------------- start_server

\* start_server without the test of lines 99-101.
StartCheck_NoCheck(t) ==
    /\ Begin(t, "start_server")
    /\ lockOwner["child"] = 0
    /\ Goto(t, "start_acquire")
    /\ UNCHANGED <<shared, env, locals>>
    /\ UNCHANGED notServer

\* Lines 94-102: the exclusivity check, under the child lock.
StartCheck(t) ==
    /\ Begin(t, "start_server")
    /\ lockOwner["child"] = 0
    /\ IF child # None
         THEN Return(t, "start_server", "already_running", None)
         ELSE Goto(t, "start_acquire") /\ UNCHANGED locals
    /\ UNCHANGED <<shared, env>>
    /\ UNCHANGED notServer

\* Line 106: 32 random bytes; any value may be drawn.
generate_token == Tokens

\* Port resolution that binds an ephemeral port whatever is configured.
ResolvePort_IgnoreConfig(cfg) == EphemeralPorts

\* Lines 109-118: the configured port, else what an ephemeral bind reports.
ResolvePort(cfg) == IF cfg # None THEN {cfg} ELSE EphemeralPorts

\* What the spawned backend finds in its environment (lines 127-129, 141-143).
ChildEnv(p, tok) == [port |-> p, token |-> tok]

\* Lines 104-147 with the bind and the spawn succeeding: load the
\* configuration, generate the token, resolve the port, spawn the backend.
StartAcquire(t) ==
    /\ pc[t] = "start_acquire"
    /\ Unspawned # {}
    /\ \E tok \in generate_token, p \in ResolvePort(cfgPort) :
         /\ l_cfg' = [l_cfg EXCEPT ![t] = cfgPort]
         /\ l_token' = [l_token EXCEPT ![t] = tok]
         /\ l_port' = [l_port EXCEPT ![t] = p]
         /\ procEnv' = [procEnv EXCEPT ![NextPid] = ChildEnv(p, tok)]
    /\ procState' = [procState EXCEPT ![NextPid] = "running"]
    /\ l_child' = [l_child EXCEPT ![t] = NextPid]
    /\ Goto(t, "start_lock_child")
    /\ UNCHANGED <<shared, cfgPort, termSent, appExit, scen>>
    /\ UNCHANGED notServer

\* Lines 112-113: TcpListener::bind fails.
StartBindFail(t) ==
    /\ pc[t] = "start_acquire"
    /\ cfgPort = None
    /\ Return(t, "start_server", "err_bind", None)
    /\ scen' = 0
    /\ UNCHANGED <<shared, env>>
    /\ UNCHANGED notServer

\* A failing start_server that leaves a spawned backend running.
StartSpawnFail_Leak(t) ==
    /\ pc[t] = "start_acquire"
    /\ Unspawned # {}
    /\ procState' = [procState EXCEPT ![NextPid] = "running"]
    /\ Return(t, "start_server", "err_spawn", None)
    /\ scen' = 0
    /\ UNCHANGED <<shared, cfgPort, procEnv, termSent, appExit>>
    /\ UNCHANGED notServer

\* Lines 131-132, 135, 136, 145-146: bun_path, server_entry or spawn fails.
StartSpawnFail(t) ==
    /\ pc[t] = "start_acquire"
    /\ Return(t, "start_server", "err_spawn", None)
    /\ scen' = 0
    /\ UNCHANGED <<shared, env>>
    /\ UNCHANGED notServer

\* Lines 149-150: take the child lock and store the handle; the guard lives
\* to the end of the function.  The handle stored before, if any, is dropped.
StartLockChild(t) ==
    /\ pc[t] = "start_lock_child"
    /\ lockOwner["child"] = 0
    /\ lockOwner' = [lockOwner EXCEPT !["child"] = t]
    /\ child' = l_child[t]
    /\ procState' = DropChild(procState, child)
    /\ procEnv' = EnvAfter(procState', procEnv)
    /\ Goto(t, "start_lock_token")
    /\ UNCHANGED <<desktop_token, port, cfgPort, termSent, appExit, locals, scen>>
    /\ UNCHANGED notServer

\* Lines 152-153.
StartLockToken(t) ==
    /\ pc[t] = "start_lock_token"
    /\ lockOwner["token"] = 0
    /\ lockOwner' = [lockOwner EXCEPT !["token"] = t]
    /\ desktop_token' = l_token[t]
    /\ Goto(t, "start_lock_port")
    /\ UNCHANGED <<child, port, env, locals, scen>>
    /\ UNCHANGED notServer

\* start_server returning Ok without the store of line 156.
StartLockPort_NoStore(t) ==
    /\ pc[t] = "start_lock_port"
    /\ lockOwner["port"] = 0
    /\ lockOwner' = Released(t)
    /\ Return(t, "start_server", "ok", None)
    /\ UNCHANGED <<child, desktop_token, port, env, scen>>
    /\ UNCHANGED notServer

\* Lines 155-158: store the port and return Ok, dropping the three guards.
StartLockPort(t) ==
    /\ pc[t] = "start_lock_port"
    /\ lockOwner["port"] = 0
    /\ port' = l_port[t]
    /\ lockOwner' = Released(t)
    /\ Return(t, "start_server", "ok", None)
    /\ UNCHANGED <<child, desktop_token, env, scen>>
    /\ UNCHANGED notServer

\* ---------------------------------------------------------- stop_server

\* stop_server keeping the child lock after line 169.
StopTake_HoldLock(t) ==
    /\ Begin(t, "stop_server")
    /\ lockOwner["child"] = 0
    /\ lockOwner' = [lockOwner EXCEPT !["child"] = t]
    /\ l_child' = [l_child EXCEPT ![t] = child]
    /\ child' = None
    /\ Goto(t, "stop_token")
    /\ UNCHANGED <<desktop_token, port, env, l_cfg, l_token, l_port>>
    /\ UNCHANGED notServer

\* Lines 162-169: take the child out of the mutex.
StopTake(t) ==
    /\ Begin(t, "stop_server")
    /\ lockOwner["child"] = 0
    /\ l_child' = [l_child EXCEPT ![t] = child]
    /\ child' = None
    /\ Goto(t, "stop_token")
    /\ UNCHANGED <<desktop_token, port, lockOwner, env, l_cfg, l_token, l_port>>
    /\ UNCHANGED notServer

\* Lines 172-175.
StopClearToken(t) ==
    /\ pc[t] = "stop_token"
    /\ lockOwner["token"] = 0
    /\ desktop_token' = None
    /\ Goto(t, "stop_port")
    /\ UNCHANGED <<child, port, lockOwner, env, locals, scen>>
    /\ UNCHANGED notServer

\* stop_server without the store of line 178.
StopClearPort_Skip(t) ==
    /\ pc[t] = "stop_port"
    /\ lockOwner["port"] = 0
    /\ Goto(t, "stop_kill")
    /\ UNCHANGED <<shared, env, locals, scen>>
    /\ UNCHANGED notServer

\* Lines 176-179.
StopClearPort(t) ==
    /\ pc[t] = "stop_port"
    /\ lockOwner["port"] = 0
    /\ port' = None
    /\ Goto(t, "stop_kill")
    /\ UNCHANGED <<child, desktop_token, lockOwner, env, locals, scen>>
    /\ UNCHANGED notServer

\* Lines 181-184: kill and wait for the taken child, if there is one.
StopKill(t) ==
    /\ pc[t] = "stop_kill"
    /\ procState' = IF l_child[t] # None
                      THEN KillAndWait(procState, l_child[t])
                      ELSE procState
    /\ procEnv' = EnvAfter(procState', procEnv)
    /\ Return(t, "stop_server", "ok", None)
    /\ UNCHANGED <<shared, cfgPort, termSent, appExit, scen>>
    /\ UNCHANGED notServer

\* ---------------------------------------------------- get_server_status

\* get_server_status without the store of line 196.
Status_KeepHandle(t) ==
    /\ Begin(t, "get_server_status")
    /\ lockOwner["child"] = 0
    /\ IF child # None /\ ~HasExited(procState, child)
         THEN Return(t, "get_server_status", "running", None)
         ELSE Return(t, "get_server_status", "stopped", None)
    /\ UNCHANGED <<shared, env>>
    /\ UNCHANGED notServer

\* Lines 188-203, under the child lock.
Status(t) ==
    /\ Begin(t, "get_server_status")
    /\ lockOwner["child"] = 0
    /\ IF child = None
         THEN /\ Return(t, "get_server_status", "stopped", None)
              /\ UNCHANGED <<child, procState>>
         ELSE IF HasExited(procState, child)
           THEN /\ child' = None
                /\ procState' = [procState EXCEPT ![child] = "reaped"]
                /\ Return(t, "get_server_status", "stopped", None)
           ELSE /\ Return(t, "get_server_status", "running", None)
                /\ UNCHANGED <<child, procState>>
    /\ procEnv' = EnvAfter(procState', procEnv)
    /\ UNCHANGED <<desktop_token, port, lockOwner, cfgPort, termSent, appExit>>
    /\ UNCHANGED notServer

\* ------------------------------------- get_desktop_token, get_server_port

\* Lines 206-210.
GetToken(t) ==
    /\ Begin(t, "get_desktop_token")
    /\ lockOwner["token"] = 0
    /\ Return(t, "get_desktop_token", "ok", desktop_token)
    /\ UNCHANGED <<shared, env>>
    /\ UNCHANGED notServer

\* Lines 213-217.
GetPort(t) ==
    /\ Begin(t, "get_server_port")
    /\ lockOwner["port"] = 0
    /\ Return(t, "get_server_port", "ok", port)
    /\ UNCHANGED <<shared, env>>
    /\ UNCHANGED notServer

\* ------------------------------------------------------------ kill_sync

\* kill_sync that signals nothing and only drops the handle.
KillSync_NoSignal ==
    /\ ~appExit
    /\ lockOwner["child"] = 0
    /\ appExit' = TRUE
    /\ procState' = DropChild(procState, child)
    /\ procEnv' = EnvAfter(procState', procEnv)
    /\ child' = None
    /\ resp' = NoResp
    /\ scen' = 0
    /\ UNCHANGED <<desktop_token, port, lockOwner, cfgPort, termSent, pc, locals>>
    /\ UNCHANGED notServer

\* Lines 26-44, called once from the RunEvent::Exit hook (lib.rs 108-113):
\* SIGTERM to the process group of the stored child, then the handle is
\* dropped.  Commands already in flight keep running; no new ones arrive.
KillSync ==
    /\ ~appExit
    /\ lockOwner["child"] = 0
    /\ appExit' = TRUE
    /\ termSent' = IF child # None THEN termSent \cup {child} ELSE termSent
    /\ procState' = DropChild(procState, child)
    /\ procEnv' = EnvAfter(procState', procEnv)
    /\ child' = None
    /\ resp' = NoResp
    /\ scen' = 0
    /\ UNCHANGED <<desktop_token, port, lockOwner, cfgPort, pc, locals>>
    /\ UNCHANGED notServer

\* ---------------------------------------------------------- environment

\* The backend process terminates on its own (crash or self-termination).
ProcExit(p) ==
    /\ procState[p] = "running"
    /\ procState' = [procState EXCEPT ![p] = "exited"]
    /\ resp' = NoResp
    /\ scen' = 0
    /\ UNCHANGED <<shared, cfgPort, procEnv, termSent, appExit, pc, locals>>
    /\ UNCHANGED notServer

\* -------------------------------------------------------- specification

TaskStep(t) ==
    \/ StartCheck(t) \/ StartAcquire(t) \/ StartBindFail(t) \/ StartSpawnFail(t)
    \/ StartLockChild(t) \/ StartLockToken(t) \/ StartLockPort(t)
    \/ StopTake(t) \/ StopClearToken(t) \/ StopClearPort(t) \/ StopKill(t)
    \/ Status(t) \/ GetToken(t) \/ GetPort(t)

Next ==
    \/ \E t \in Tasks : TaskStep(t)
    \/ KillSync
    \/ \E p \in Procs : ProcExit(p)

Spec == Init /\ [][Next]_vars

TypeOK ==
    /\ child \in Procs \cup {None}
    /\ desktop_token \in Tokens \cup {None}
    /\ port \in ConfigPorts \cup EphemeralPorts \cup {None}
    /\ lockOwner \in [Fields -> Tasks \cup {0}]
    /\ procState \in [Procs -> {"unspawned", "running", "exited", "reaped", "killed"}]
    /\ termSent \subseteq Procs
    /\ scen \in 0..(Len(ScenarioOps) + 1)

\* ------------------------------------------------------ terminal bridge

\* What no step of the bridge touches.
server == <<shared, env, scen, lockVars>>

\* The dispatch layer starts a terminal command on a free task.
PtyBegin(t) ==
    /\ pc[t] = "idle"
    /\ solo' = Quiescent

\* A task moves on inside its terminal command.
PtyGoto(t, label) ==
    /\ Goto(t, label)
    /\ req' = NoReq

\* A terminal command of task t, called with argument a, returns result r.
PtyReturnOf(t, o, a, r) ==
    /\ Return(t, o, r, None)
    /\ req' = a
    /\ p_sid' = [p_sid EXCEPT ![t] = None]
    /\ p_data' = [p_data EXCEPT ![t] = <<>>]
    /\ p_n' = [p_n EXCEPT ![t] = 0]
    /\ p_base' = [p_base EXCEPT ![t] = <<>>]

PtyReturn(t, o, r) == PtyReturnOf(t, o, NoReq, r)

RECURSIVE Delivered(_)
\* Number of bytes handed to the children of the sessions in S.
Delivered(S) ==
    IF S = {} THEN 0
    ELSE LET s == CHOOSE x \in S : TRUE
         IN Len(input[s]) + Delivered(S \ {s})

Unopened == Sessions \ opened
NextSid == CHOOSE s \in Unopened : \A q \in Unopened : s <= q

\* Lines 35-105: open the pseudo-terminal, spawn the command on its slave
\* side, take the writer, clone the reader; then store the writer.
SpawnStoreWriter(t) ==
    /\ PtyBegin(t)
    /\ Unopened # {}
    /\ ptyLock["writer"] = 0
    /\ opened' = opened \cup {NextSid}
    /\ p_sid' = [p_sid EXCEPT ![t] = NextSid]
    /\ writer' = NextSid
    /\ PtyGoto(t, "spawn_master")
    /\ UNCHANGED <<master, alive, ptyLock, reader, input, geometry, exits,
                   p_data, p_n, p_base, server, locals>>

\* Lines 38-45, 50-54, 87-90, 93-96, 99-102: openpty, current_exe,
\* spawn_command, take_writer or try_clone_reader fails; the pair is dropped.
SpawnFail(t) ==
    /\ PtyBegin(t)
    /\ PtyReturn(t, "spawn_pty", "err_spawn")
    /\ UNCHANGED <<ptyShared, ptyEnv, server>>

\* Line 106.
SpawnStoreMaster(t) ==
    /\ pc[t] = "spawn_master"
    /\ ptyLock["master"] = 0
    /\ master' = p_sid[t]
    /\ PtyGoto(t, "spawn_alive")
    /\ UNCHANGED <<writer, alive, ptyLock, ptyEnv, ptyLocals, solo, server, locals>>

\* spawn_pty without the store of line 107.
SpawnStoreAlive_NoStore(t) ==
    /\ pc[t] = "spawn_alive"
    /\ ptyLock["alive"] = 0
    /\ reader' = [reader EXCEPT ![p_sid[t]] = "reading"]
    /\ PtyReturn(t, "spawn_pty", "ok")
    /\ UNCHANGED <<ptyShared, opened, input, geometry, exits, solo, server>>

\* Lines 107-130: set alive, start the reader thread, return Ok.
SpawnStoreAlive(t) ==
    /\ pc[t] = "spawn_alive"
    /\ ptyLock["alive"] = 0
    /\ alive' = TRUE
    /\ reader' = [reader EXCEPT ![p_sid[t]] = "reading"]
    /\ PtyReturn(t, "spawn_pty", "ok")
    /\ UNCHANGED <<writer, master, ptyLock, opened, input, geometry, exits,
                   solo, server>>

\* write_pty that goes on to write when no writer is stored.
WriteLock_NoCheck(t, d) ==
    /\ PtyBegin(t)
    /\ ptyLock["writer"] = 0
    /\ ptyLock' = [ptyLock EXCEPT !["writer"] = t]
    /\ p_data' = [p_data EXCEPT ![t] = d]
    /\ PtyGoto(t, "write_io")
    /\ UNCHANGED <<writer, master, alive, ptyEnv, p_sid, p_n, p_base,
                   server, locals>>

\* write_pty that does not keep the writer lock while it writes.
WriteLock_NoLock(t, d) ==
    /\ PtyBegin(t)
    /\ ptyLock["writer"] = 0
    /\ IF writer = None
         THEN /\ PtyReturn(t, "write_pty", "err_no_session")
         ELSE /\ Delivered(Sessions) + Len(d) <= MaxInput
              /\ p_data' = [p_data EXCEPT ![t] = d]
              /\ p_base' = [p_base EXCEPT ![t] = input[writer]]
              /\ PtyGoto(t, "write_io")
              /\ UNCHANGED <<p_sid, p_n, locals>>
    /\ UNCHANGED <<writer, master, alive, ptyLock, ptyEnv, server>>

\* Lines 134-138, 143-145: take the writer lock; without a writer return the
\* error, with one go on to write while the guard stays held.
WriteLock(t, d) ==
    /\ PtyBegin(t)
    /\ ptyLock["writer"] = 0
    /\ IF writer = None
         THEN /\ PtyReturn(t, "write_pty", "err_no_session")
              /\ UNCHANGED ptyLock
         ELSE /\ Delivered(Sessions) + Len(d) <= MaxInput
              /\ ptyLock' = [ptyLock EXCEPT !["writer"] = t]
              /\ p_data' = [p_data EXCEPT ![t] = d]
              /\ p_base' = [p_base EXCEPT ![t] = input[writer]]
              /\ PtyGoto(t, "write_io")
              /\ UNCHANGED <<p_sid, p_n, locals>>
    /\ UNCHANGED <<writer, master, alive, ptyEnv, server>>

\* Lines 139-142, 147: write_all hands the child the next byte; after the
\* last one the writer is flushed, Ok is returned and the guard dropped.
WriteByte(t) ==
    /\ pc[t] = "write_io"
    /\ input' = [input EXCEPT ![writer] = Append(@, p_data[t][p_n[t] + 1])]
    /\ IF p_n[t] + 1 = Len(p_data[t])
         THEN /\ PtyReturn(t, "write_pty", "ok")
              /\ ptyLock' = [ptyLock EXCEPT !["writer"] = 0]
         ELSE /\ p_n' = [p_n EXCEPT ![t] = @ + 1]
              /\ PtyGoto(t, "write_io")
              /\ UNCHANGED <<ptyLock, p_sid, p_data, p_base, locals>>
    /\ UNCHANGED <<writer, master, alive, opened, reader, geometry, exits,
                   solo, server>>

\* write_pty that drops the stored writer when the write fails.
WriteFail_TearDown(t) ==
    /\ pc[t] = "write_io"
    /\ ptyLock' = [ptyLock EXCEPT !["writer"] = 0]
    /\ writer' = None
    /\ PtyReturn(t, "write_pty", "err_write")
    /\ UNCHANGED <<master, alive, ptyEnv, solo, server>>

\* Lines 141, 142: write_all or flush fails; the error is returned and the
\* guard dropped.
WriteFail(t) ==
    /\ pc[t] = "write_io"
    /\ ptyLock' = [ptyLock EXCEPT !["writer"] = 0]
    /\ PtyReturn(t, "write_pty", "err_write")
    /\ UNCHANGED <<writer, master, alive, ptyEnv, solo, server>>

\* resize_pty that reports an error when no master is stored.
Resize_ErrNoSession(t, g) ==
    /\ PtyBegin(t)
    /\ ptyLock["master"] = 0
    /\ IF master = None
         THEN /\ PtyReturnOf(t, "resize_pty", g, "err_no_session")
              /\ UNCHANGED geometry
         ELSE /\ PtyReturnOf(t, "resize_pty", g, "ok")
              /\ geometry' = [geometry EXCEPT ![master] = g]
    /\ UNCHANGED <<ptyShared, opened, reader, input, exits, server>>

\* Lines 151-167 with the resize succeeding, under the master lock.
Resize(t, g) ==
    /\ PtyBegin(t)
    /\ ptyLock["master"] = 0
    /\ geometry' = IF master = None THEN geometry
                                    ELSE [geometry EXCEPT ![master] = g]
    /\ PtyReturnOf(t, "resize_pty", g, "ok")
    /\ UNCHANGED <<ptyShared, opened, reader, input, exits, server>>

\* Line 163: MasterPty::resize fails.
ResizeFail(t) ==
    /\ PtyBegin(t)
    /\ ptyLock["master"] = 0
    /\ master # None
    /\ PtyReturn(t, "resize_pty", "err_resize")
    /\ UNCHANGED <<ptyShared, ptyEnv, server>>

\* Lines 170-172.
KillWriter(t) ==
    /\ PtyBegin(t)
    /\ ptyLock["writer"] = 0
    /\ writer' = None
    /\ PtyGoto(t, "kill_master")
    /\ UNCHANGED <<master, alive, ptyLock, ptyEnv, ptyLocals, server, locals>>

\* kill_pty without the store of line 173.
KillMaster_Skip(t) ==
    /\ pc[t] = "kill_master"
    /\ ptyLock["master"] = 0
    /\ PtyGoto(t, "kill_alive")
    /\ UNCHANGED <<ptyShared, ptyEnv, ptyLocals, solo, server, locals>>

\* Line 173.
KillMaster(t) ==
    /\ pc[t] = "kill_master"
    /\ ptyLock["master"] = 0
    /\ master' = None
    /\ PtyGoto(t, "kill_alive")
    /\ UNCHANGED <<writer, alive, ptyLock, ptyEnv, ptyLocals, solo, server, locals>>

\* Lines 174-175.
KillAlive(t) ==
    /\ pc[t] = "kill_alive"
    /\ ptyLock["alive"] = 0
    /\ alive' = FALSE
    /\ PtyReturn(t, "kill_pty", "ok")
    /\ UNCHANGED <<writer, master, ptyLock, ptyEnv, solo, server>>

\* Lines 114-119: read returns n > 0 bytes and the thread emits them as a
\* "pty-output" event; the event is the response of this step.
ReaderOutput(s) ==
    /\ reader[s] = "reading"
    /\ resp' = [op |-> "pty-output", result |-> "event", retval |-> s]
    /\ req' = NoReq
    /\ UNCHANGED <<ptyShared, ptyEnv, ptyLocals, solo, server, pc, locals>>

\* A reader thread that emits "pty-exit" twice.
ReaderEnd_EmitTwice(s) ==
    /\ reader[s] = "reading"
    /\ ptyLock["alive"] = 0
    /\ alive' = FALSE
    /\ exits' = [exits EXCEPT ![s] = @ + 2]
    /\ reader' = [reader EXCEPT ![s] = "done"]
    /\ resp' = NoResp
    /\ req' = NoReq
    /\ UNCHANGED <<writer, master, ptyLock, opened, input, geometry,
                   ptyLocals, solo, server, pc, locals>>

\* Lines 113-127: read returns Ok(0) or Err, which ends the loop; the
\* thread clears alive under its lock, emits "pty-exit" and ends.
ReaderEnd(s) ==
    /\ reader[s] = "reading"
    /\ ptyLock["alive"] = 0
    /\ alive' = FALSE
    /\ exits' = [exits EXCEPT ![s] = @ + 1]
    /\ reader' = [reader EXCEPT ![s] = "done"]
    /\ resp' = NoResp
    /\ req' = NoReq
    /\ UNCHANGED <<writer, master, ptyLock, opened, input, geometry,
                   ptyLocals, solo, server, pc, locals>>

PtyTaskStep(t) ==
    \/ SpawnStoreWriter(t) \/ SpawnFail(t)
    \/ SpawnStoreMaster(t) \/ SpawnStoreAlive(t)
    \/ \E d \in Datas : WriteLock(t, d)
    \/ WriteByte(t) \/ WriteFail(t)
    \/ \E g \in Geoms : Resize(t, g)
    \/ ResizeFail(t)
    \/ KillWriter(t) \/ KillMaster(t) \/ KillAlive(t)

PtyNext ==
    \/ \E t \in Tasks : PtyTaskStep(t)
    \/ \E s \in Sessions : ReaderOutput(s) \/ ReaderEnd(s)

\* The bridge does not read the configuration.
PtyInit == Init /\ cfgPort = None

PtySpec == PtyInit /\ [][PtyNext]_vars

PtyTypeOK ==
    /\ writer \in Sessions \cup {None}
    /\ master \in Sessions \cup {None}
    /\ alive \in BOOLEAN
    /\ ptyLock \in [PtyFields -> Tasks \cup {0}]
    /\ opened \subseteq Sessions
    /\ reader \in [Sessions -> {"none", "reading", "done"}]
    /\ \A s \in Sessions : Len(input[s]) <= MaxInput
    /\ geometry \in [Sessions -> Geoms]
    /\ exits \in [Sessions -> 0..1]
    /\ req \in Geoms \cup {NoReq}

\* ----------------------------------------------------- locking skeleton

Locks == Fields \cup PtyFields

\* What no step of the skeleton touches.
notLock == <<serverVars, pc, resp, locals, ptyVars>>

Acquire(f) == [do |-> "acquire", lock |-> f]
Release(f) == [do |-> "release", lock |-> f]
Blocking(what) == [do |-> "block", lock |-> what]

\* The skeleton with stop_server taking port, token and child nested, in
\* the order opposite to start_server's.
LockScript_StopNested ==
    [start_server |->
        <<Acquire("child"), Release("child"), Blocking("spawn"),
          Acquire("child"), Acquire("token"), Acquire("port"),
          Release("port"), Release("token"), Release("child")>>,
     stop_server |->
        <<Acquire("port"), Acquire("token"), Acquire("child"),
          Release("child"), Release("token"), Release("port"),
          Blocking("kill")>>]

\* For every operation, and every way through it that differs in locking,
\* the lock acquisitions, the releases (where the guard goes out of scope)
\* and the blocking calls, in program order.
LockScript ==
    [start_server_refused |->                \* server.rs 97-101
        <<Acquire("child"), Release("child")>>,
     start_server_failed |->                 \* server.rs 97-102, 112-146
        <<Acquire("child"), Release("child"), Blocking("spawn")>>,
     start_server |->                        \* server.rs 97-158
        <<Acquire("child"), Release("child"), Blocking("spawn"),
          Acquire("child"), Acquire("token"), Acquire("port"),
          Release("port"), Release("token"), Release("child")>>,
     stop_server |->                         \* server.rs 166-183
        <<Acquire("child"), Release("child"),
          Acquire("token"), Release("token"),
          Acquire("port"), Release("port"), Blocking("kill")>>,
     get_server_status |->                   \* server.rs 190-202
        <<Acquire("child"), Release("child")>>,
     get_desktop_token |->                   \* server.rs 207-209
        <<Acquire("token"), Release("token")>>,
     get_server_port |->                     \* server.rs 214-216
        <<Acquire("port"), Release("port")>>,
     kill_sync |->                           \* server.rs 27-43
        <<Acquire("child"), Release("child")>>,
     spawn_pty |->                           \* pty.rs 87-107
        <<Blocking("spawn"),
          Acquire("writer"), Release("writer"),
          Acquire("master"), Release("master"),
          Acquire("alive"), Release("alive")>>,
     write_pty_no_session |->                \* pty.rs 136, 143-145
        <<Acquire("writer"), Release("writer")>>,
     write_pty |->                           \* pty.rs 136-148
        <<Acquire("writer"), Blocking("write"), Release("writer")>>,
     resize_pty |->                          \* pty.rs 153-167
        <<Acquire("master"), Release("master")>>,
     kill_pty |->                            \* pty.rs 172-174
        <<Acquire("writer"), Release("writer"),
          Acquire("master"), Release("master"),
          Acquire("alive"), Release("alive")>>,
     reader_thread |->                       \* pty.rs 113-126
        <<Blocking("read"), Acquire("alive"), Release("alive")>>]

LockOps == DOMAIN LockScript

\* The step thread t is at.
LockStepOf(t) == LockScript[lkOp[t]][lkPos[t]]

\* Thread t has done its step: on to the next one, or the operation is over.
LockAdvance(t) ==
    IF lkPos[t] = Len(LockScript[lkOp[t]])
      THEN /\ lkOp' = [lkOp EXCEPT ![t] = "idle"]
           /\ lkPos' = [lkPos EXCEPT ![t] = 1]
      ELSE /\ lkPos' = [lkPos EXCEPT ![t] = @ + 1]
           /\ UNCHANGED lkOp

\* A thread starts an operation.
LockBegin(t, o) ==
    /\ lkOp[t] = "idle"
    /\ lkOp' = [lkOp EXCEPT ![t] = o]
    /\ UNCHANGED <<lkPos, lkOwner>>
    /\ UNCHANGED notLock

\* Mutex::lock returns once the mutex is free.
LockAcquire(t) ==
    /\ lkOp[t] # "idle"
    /\ LockStepOf(t).do = "acquire"
    /\ lkOwner[LockStepOf(t).lock] = 0
    /\ lkOwner' = [lkOwner EXCEPT ![LockStepOf(t).lock] = t]
    /\ lkPos' = [lkPos EXCEPT ![t] = @ + 1]
    /\ UNCHANGED lkOp
    /\ UNCHANGED notLock

\* The guard is dropped.
LockRelease(t) ==
    /\ lkOp[t] # "idle"
    /\ LockStepOf(t).do = "release"
    /\ lkOwner' = [lkOwner EXCEPT ![LockStepOf(t).lock] = 0]
    /\ LockAdvance(t)
    /\ UNCHANGED notLock

\* The blocking call returns.
LockUnblock(t) ==
    /\ lkOp[t] # "idle"
    /\ LockStepOf(t).do = "block"
    /\ LockAdvance(t)
    /\ UNCHANGED lkOwner
    /\ UNCHANGED notLock

LockNext ==
    \E t \in Tasks :
        \/ \E o \in LockOps : LockBegin(t, o)
        \/ LockAcquire(t)
        \/ LockRelease(t)
        \/ LockUnblock(t)

LockSpec == PtyInit /\ [][LockNext]_vars

\* ----------------------------------------------------------------- claims

Getters == {"get_desktop_token", "get_server_port"}
StartReturnedOk == resp.op = "start_server" /\ resp.result = "ok"

\* The step is the exclusivity check of a start_server: the call either goes
\* on to acquire its resources or returns from the check.
StartCheckStep ==
    \/ \E t \in Tasks : pc[t] = "idle" /\ pc'[t] = "start_acquire"
    \/ resp'.op = "start_server" /\ pc' = pc

\* The step is a whole get_server_status call.
StatusStep == resp'.op = "get_server_status"

\* C1: whenever no supervisor operation is part-way through, desktop_token
\* and port are both Some if and only if child is Some.
\* The code breaks this: get_server_status (line 196) and kill_sync (line 42)
\* clear child and leave desktop_token and port as they are.
CE_C1 ==
    Quiescent => ((desktop_token # None /\ port # None) <=> child # None)

\* C2: start_server records child, token and port atomically: whenever the
\* child stored by a start can be read (the child lock is free), the token
\* and the port that start generated are stored with it.
\* The code breaks this: the three fields have separate locks, so a
\* stop_server that took the child lock before the start clears token and
\* port after the start stored them.
CE_C2 ==
    (lockOwner["child"] = 0 /\ child # None)
        => /\ desktop_token = procEnv[child].token
           /\ port = procEnv[child].port

\* C3: a start_server that finds a child handle stored returns the
\* "already running" error, spawns nothing and leaves child, token and port
\* (and every process) as they were.
Thm_C3 ==
    [][(StartCheckStep /\ child # None)
          => /\ resp' = [op |-> "start_server", result |-> "already_running",
                         retval |-> None]
             /\ pc' = pc
             /\ UNCHANGED <<child, desktop_token, port, procState, procEnv>>]_vars

\* A start_server has just been refused while a child is stored.
Wit_C3 ==
    /\ resp.op = "start_server"
    /\ resp.result = "already_running"
    /\ child # None

\* C4: of two start_server calls running concurrently from the stopped
\* state, only one spawns a backend process.
\* The code breaks this: the child lock is released after the check of lines
\* 97-102, so both calls pass it and both spawn.
CE_C4 ==
    \A t, u \in Tasks :
        (t # u /\ pc[t] = "start_lock_child" /\ pc[u] = "start_lock_child")
            => ~(l_child[t] # None /\ l_child[u] # None)

\* C5: stop_server with no child stored returns success and performs no
\* process operation; every stop_server call clears child, token and port,
\* each under its own lock, and touches nothing else of ServerState.
Thm_C5 ==
    [][\A t \in Tasks :
         /\ (pc[t] = "idle" /\ pc'[t] = "stop_token")
               => /\ child' = None
                  /\ l_child'[t] = child
                  /\ UNCHANGED <<desktop_token, port, procState>>
         /\ (pc[t] = "stop_token" /\ pc'[t] = "stop_port")
               => /\ desktop_token' = None
                  /\ UNCHANGED <<child, port, procState>>
         /\ (pc[t] = "stop_port" /\ pc'[t] = "stop_kill")
               => /\ port' = None
                  /\ UNCHANGED <<child, desktop_token, procState>>
         /\ (pc[t] = "stop_kill" /\ pc'[t] = "idle")
               => /\ resp' = [op |-> "stop_server", result |-> "ok",
                              retval |-> None]
                  /\ UNCHANGED <<child, desktop_token, port>>
                  /\ l_child[t] = None => UNCHANGED <<procState, procEnv, termSent>>]_vars

\* A stop_server that found no child has returned, and all three are None.
Wit_C5 ==
    /\ resp.op = "stop_server"
    /\ resp.result = "ok"
    /\ child = None /\ desktop_token = None /\ port = None
    /\ \A p \in Procs : procState[p] = "unspawned"

\* C6: get_server_status on a child that exited returns "stopped" and sets
\* child to None; with child None it returns "stopped" and changes nothing;
\* on a child that has not exited it returns "running" and keeps the handle.
\* Only start_server stores a handle, so once child is None every later
\* status call without a start in between meets the second case.
Thm_C6 ==
    [][/\ StatusStep
            => /\ (child # None /\ procState[child] = "exited")
                     => (resp'.result = "stopped" /\ child' = None)
               /\ (child = None)
                     => /\ resp'.result = "stopped"
                        /\ UNCHANGED <<child, desktop_token, port,
                                       procState, procEnv>>
               /\ (child # None /\ procState[child] = "running")
                     => /\ resp'.result = "running"
                        /\ UNCHANGED <<child, procState>>
       /\ (child = None /\ child' # None)
            => \E t \in Tasks : pc[t] = "start_lock_child" /\ pc'[t] # pc[t]]_vars

\* get_server_status has just reaped the only child spawned so far, which
\* exited on its own (no stop_server ran: the token is still stored).
Wit_C6 ==
    /\ resp.op = "get_server_status"
    /\ resp.result = "stopped"
    /\ child = None
    /\ desktop_token # None
    /\ \E p \in Procs :
          /\ procState[p] = "reaped"
          /\ \A q \in Procs \ {p} : procState[q] = "unspawned"

\* C7: whenever child is None, get_desktop_token and get_server_port return
\* None (stated here for the calls that run while no other command is in
\* flight, where the claim is at its weakest).
\* The code breaks this: get_server_status clears child at line 196 and
\* leaves desktop_token and port stored.
CE_C7 ==
    (Quiescent /\ resp.op \in Getters /\ child = None) => resp.retval = None

\* C8: in the scenario of ScenarioOps start_server succeeds, get_server_port
\* returns a port in 1..65535, get_server_status returns "running",
\* stop_server succeeds, get_server_port returns None and get_server_status
\* returns "stopped".
Thm_C8 ==
    (scen >= 2 /\ Quiescent /\ resp.op # "none")
        => /\ resp.op = ScenarioOps[scen - 1]
           /\ scen = 2 => resp.result = "ok"
           /\ scen = 3 => resp.retval \in 1..MaxPort
           /\ scen = 4 => resp.result = "running"
           /\ scen = 5 => resp.result = "ok"
           /\ scen = 6 => resp.retval = None
           /\ scen = 7 => resp.result = "stopped"

\* The last command of the scenario has returned.
Wit_C8 ==
    /\ scen = Len(ScenarioOps) + 1
    /\ resp.op = "get_server_status"
    /\ resp.result = "stopped"

\* C10: when start_server returns Ok, the stored port is the PORT given to
\* the child it stored; it is the configured port when one is configured
\* and the result of an ephemeral bind otherwise.
Thm_C10 ==
    StartReturnedOk
        => /\ child # None
           /\ port = procEnv[child].port
           /\ cfgPort # None => port = cfgPort
           /\ cfgPort = None => port \in EphemeralPorts

\* A start has returned Ok with a port override configured.
Wit_C10 ==
    /\ StartReturnedOk
    /\ cfgPort # None
    /\ port = cfgPort

\* The step is the first section of a write_pty: the call either goes on to
\* write or returns from the check.
WriteCheckStep ==
    \/ \E t \in Tasks : pc[t] = "idle" /\ pc'[t] = "write_io"
    \/ resp'.op = "write_pty" /\ pc' = pc

\* C11: write_pty with no writer stored returns the "No PTY session active"
\* error, hands no byte to any child and leaves writer, master and alive as
\* they were; with a writer stored it writes every byte of data to that
\* writer's session, in order, and returns Ok after the flush.
Thm_C11 ==
    [][/\ (WriteCheckStep /\ writer = None)
            => /\ resp' = [op |-> "write_pty", result |-> "err_no_session",
                           retval |-> None]
               /\ pc' = pc
               /\ UNCHANGED <<writer, master, alive, ptyLock, input>>
       /\ (WriteCheckStep /\ writer # None)
            => /\ \E t \in Tasks : pc'[t] = "write_io" /\ ptyLock'["writer"] = t
               /\ UNCHANGED <<writer, master, alive, input>>
       /\ \A t \in Tasks :
            (pc[t] = "write_io" /\ pc'[t] = "idle" /\ resp'.result = "ok")
                => /\ input'[writer] = p_base[t] \o p_data[t]
                   /\ \A s \in Sessions \ {writer} : input'[s] = input[s]
                   /\ UNCHANGED <<writer, master, alive>>]_vars

\* A write_pty has just been refused after a session was opened and killed.
Wit_C11 ==
    /\ resp.op = "write_pty"
    /\ resp.result = "err_no_session"
    /\ opened # {}
    /\ writer = None /\ master = None /\ ~alive

\* The step is a whole resize_pty call.
ResizeStep == resp'.op = "resize_pty"

\* C12: resize_pty with no master stored returns Ok and changes nothing
\* (writer, master, alive and every terminal's geometry), also while a
\* kill_pty is part-way through; with a master stored, a resize_pty that
\* returns Ok has set that terminal's geometry to (cols, rows) and nothing
\* else.
Thm_C12 ==
    [][ResizeStep
          => /\ master = None
                  => /\ resp'.result = "ok"
                     /\ UNCHANGED <<writer, master, alive, ptyLock,
                                    geometry, input>>
             /\ (master # None /\ resp'.result = "ok")
                  => /\ geometry' = [geometry EXCEPT ![master] = req']
                     /\ UNCHANGED <<writer, master, alive, ptyLock, input>>]_vars

\* A resize_pty asking for another geometry has returned Ok between the
\* second and the third store of a kill_pty, and no terminal was resized.
Wit_C12 ==
    /\ resp.op = "resize_pty"
    /\ resp.result = "ok"
    /\ req # InitialSize
    /\ master = None
    /\ opened # {}
    /\ \E u \in Tasks : pc[u] = "kill_alive"
    /\ \A s \in Sessions : geometry[s] = InitialSize

\* The session slot is empty.
PtyIdle == writer = None /\ master = None /\ ~alive

\* The step is one of the three sections of a kill_pty of task t.
KillStep(t) ==
    \/ pc[t] = "idle" /\ pc'[t] = "kill_master"
    \/ pc[t] = "kill_master" /\ pc'[t] = "kill_alive"
    \/ pc[t] = "kill_alive" /\ pc'[t] = "idle"

\* C13: kill_pty always returns Ok; when it returns, having run from any
\* state without another terminal command alongside, writer is None, master
\* is None and alive is false; run on an idle slot it changes nothing, so a
\* second kill_pty gives the state and the result of the first.
Thm_C13 ==
    /\ [](resp.op = "kill_pty"
            => /\ resp.result = "ok"
               /\ solo => PtyIdle)
    /\ [][\A t \in Tasks :
            (KillStep(t) /\ PtyIdle)
                => /\ PtyIdle'
                   /\ UNCHANGED <<writer, master, alive, ptyEnv>>]_vars

\* A kill_pty that ran alone has returned while the reader thread of the
\* session it ended is still reading.
Wit_C13 ==
    /\ resp.op = "kill_pty"
    /\ solo
    /\ PtyIdle
    /\ \E s \in Sessions : reader[s] = "reading"

SpawnReturnedOk == resp.op = "spawn_pty" /\ resp.result = "ok"

\* C14: when a spawn_pty that ran from any prior state (never spawned,
\* killed, reader ended, or still active) without another terminal command
\* alongside returns Ok, writer and master hold the handles of the
\* pseudo-terminal it opened, the newest one, and alive is true; bytes
\* written from then on go to the session whose writer is stored and to no
\* other.
Thm_C14 ==
    /\ []((SpawnReturnedOk /\ solo)
            => /\ writer \in opened
               /\ master = writer
               /\ alive
               /\ \A s \in opened : s <= writer
               /\ input[writer] = <<>>
               /\ reader[writer] = "reading")
    /\ [][\A s \in Sessions : input'[s] # input[s] => s = writer]_vars

\* A spawn_pty has returned Ok after replacing a session that had been
\* written to and whose reader thread is still reading.
Wit_C14 ==
    /\ SpawnReturnedOk
    /\ solo
    /\ \E s \in opened :
          /\ s # writer
          /\ reader[s] = "reading"
          /\ input[s] # <<>>

\* C15: in every state a caller can observe between operations, writer is
\* Some if and only if master is Some if and only if alive is true.
\* The code breaks this: the reader thread, when its loop ends, stores
\* alive = false (line 125) and leaves writer and master stored.
CE_C15 ==
    Quiescent => /\ writer # None <=> master # None
                 /\ master # None <=> alive

\* C16: for every session "pty-exit" is emitted at most once, by the step in
\* which that session's reader thread ends its loop and by no other: it has
\* been emitted once exactly when the reader thread is done, never for a
\* session that was not spawned successfully, and no section of kill_pty
\* (or of any other command) emits it.
Thm_C16 ==
    /\ [](\A s \in Sessions :
            /\ exits[s] <= 1
            /\ exits[s] = 1 <=> reader[s] = "done")
    /\ [][\A s \in Sessions :
            exits'[s] # exits[s]
                => /\ reader[s] = "reading" /\ reader'[s] = "done"
                   /\ exits'[s] = exits[s] + 1
                   /\ pc' = pc
                   /\ \A q \in Sessions \ {s} : exits'[q] = exits[q]]_vars

\* Two sessions have been spawned and both reader threads have ended, the
\* first one after its session had been replaced or killed.
Wit_C16 ==
    /\ \A s \in Sessions : exits[s] = 1 /\ reader[s] = "done"
    /\ Quiescent

\* C17: within one session the bytes of write_pty calls reach the child in
\* the order of the calls and the bytes of one call are contiguous: while a
\* call is writing, the session's input is what the earlier calls had
\* delivered when this call took the writer, followed by the bytes this
\* call has written so far, and nothing else; the input only ever grows at
\* its end.
Thm_C17 ==
    /\ [](\A t \in Tasks :
            pc[t] = "write_io"
                => /\ writer # None
                   /\ input[writer] = p_base[t] \o SubSeq(p_data[t], 1, p_n[t]))
    /\ [][/\ \A s \in Sessions :
              \/ input'[s] = input[s]
              \/ \E b \in 0..255 : input'[s] = Append(input[s], b)
          /\ \A t \in Tasks :
              (pc[t] = "write_io" /\ pc'[t] = "idle" /\ resp'.result = "ok")
                  => input'[writer] = p_base[t] \o p_data[t]]_vars

\* A second write_pty has returned Ok in a session: its bytes follow those
\* of the first.
Wit_C17 ==
    /\ resp.op = "write_pty"
    /\ resp.result = "ok"
    /\ \E s \in Sessions : input[s] = <<3, 1, 2>>

\* C18: while stop_server is at its kill-and-wait (lines 181-183) it holds
\* none of the child, token and port locks and the handle it waits on is no
\* longer in ServerState; so, unless some other command holds a lock,
\* get_server_status, get_server_port, start_server and kill_sync can each
\* run during the wait.
Thm_C18 ==
    \A t \in Tasks :
        pc[t] = "stop_kill"
            => /\ \A f \in Fields : lockOwner[f] # t
               /\ l_child[t] # None => child # l_child[t]
               /\ (~appExit /\ \A f \in Fields : lockOwner[f] = 0)
                     => /\ ENABLED KillSync
                        /\ \A u \in Tasks :
                             pc[u] = "idle"
                                 => /\ ENABLED Status(u)
                                    /\ ENABLED GetPort(u)
                                    /\ ENABLED StartCheck(u)

\* While a stop_server waits for a backend that is still running, a
\* get_server_status has completed and reported "stopped".
Wit_C18 ==
    /\ resp.op = "get_server_status"
    /\ resp.result = "stopped"
    /\ \E t \in Tasks :
          /\ pc[t] = "stop_kill"
          /\ l_child[t] # None
          /\ procState[l_child[t]] = "running"

\* Thread t is in a blocking call.
Blocked(t) == lkOp[t] # "idle" /\ LockStepOf(t).do = "block"

\* The locks thread t holds.
Held(t) == {f \in Locks : lkOwner[f] = t}

\* C19: no operation is in a blocking call (process spawn, kill-and-wait,
\* pseudo-terminal write and flush, pseudo-terminal read) while it holds
\* one of the child, token, port, writer, master and alive locks.
\* The code breaks this: write_pty takes the writer lock at line 136 and
\* keeps the guard over write_all and flush (lines 139-142).
CE_C19 == \A t \in Tasks : Blocked(t) => Held(t) = {}

\* Thread t waits for a mutex that is not free.
Waiting(t) ==
    /\ lkOp[t] # "idle"
    /\ LockStepOf(t).do = "acquire"
    /\ lkOwner[LockStepOf(t).lock] # 0

\* The order in which start_server nests its locks, then PtyState's.
LockRank ==
    [child |-> 1, token |-> 2, port |-> 3, writer |-> 4, master |-> 5, alive |-> 6]

\* C20: under every interleaving of the operations no set of threads waits
\* on each other's locks: there is no nonempty set of threads each waiting
\* for a mutex held by a member of the set; and a thread that takes a mutex
\* while holding others (start_server only) takes them in one fixed order,
\* so no lock-order cycle can form.
Thm_C20 ==
    /\ \A W \in (SUBSET Tasks) \ {{}} :
          ~ \A t \in W : Waiting(t) /\ lkOwner[LockStepOf(t).lock] \in W
    /\ \A t \in Tasks :
          (lkOp[t] # "idle" /\ LockStepOf(t).do = "acquire")
              => \A g \in Held(t) : LockRank[g] < LockRank[LockStepOf(t).lock]

\* start_server holds the child lock and waits for the token lock, which a
\* get_desktop_token holds.
Wit_C20 ==
    \E t, u \in Tasks :
        /\ lkOp[t] = "start_server"
        /\ Waiting(t)
        /\ Held(t) = {"child"}
        /\ lkOp[u] = "get_desktop_token"
        /\ lkOwner["token"] = u

\* The step is the end of the reader thread of session s.
ReaderEndStep(s) == reader[s] = "reading" /\ reader'[s] = "done"

\* C21: the reader thread of an earlier session does not change the
\* liveness of a later one: while the slot holds session q (writer and
\* master are q's, q's reader thread is reading, alive is true, no command
\* is in flight), the end of the reader thread of an earlier session s
\* leaves alive true.
\* The code breaks this: every reader thread stores alive = false when its
\* loop ends (lines 123-126), whichever session the slot holds by then.
CE_C21 ==
    [][\A s \in Sessions :
         (/\ ReaderEndStep(s)
          /\ Quiescent
          /\ alive
          /\ \E q \in Sessions :
                /\ q > s
                /\ writer = q /\ master = q
                /\ reader[q] = "reading")
             => alive']_vars

\* The sessions whose reader thread is running.
Reading == {s \in Sessions : reader[s] = "reading"}

\* C22: at every moment at most one reader thread is running, and it is
\* that of the stored session: a "pty-output" event comes from the session
\* whose master is stored (stated here for runs in which the terminal
\* commands have not overlapped, where the claim is at its weakest).
\* The code breaks this: neither kill_pty nor a replacing spawn_pty stops
\* the reader thread of the session it ends; the thread keeps its clone of
\* the master and goes on reading until the child exits.
CE_C22 ==
    solo => /\ Cardinality(Reading) <= 1
            /\ resp.op = "pty-output" => master = resp.retval

StartFailed ==
    /\ resp.op = "start_server"
    /\ resp.result \in {"err_bind", "err_spawn"}

\* C23: a start_server that fails while acquiring its resources (port bind,
\* bundled runtime or entry point missing, spawn) returns an error and
\* leaves child, desktop_token and port as they were, holds no lock
\* afterwards, and has started no process: every process is in the state it
\* was in.
Thm_C23 ==
    [][StartFailed'
          => /\ \E t \in Tasks : pc[t] = "start_acquire" /\ pc'[t] = "idle"
             /\ UNCHANGED <<child, desktop_token, port, lockOwner,
                            procState, procEnv, termSent>>]_vars

\* A start_server from the stopped state has failed: nothing is stored and
\* no process exists.
Wit_C23 ==
    /\ StartFailed
    /\ child = None /\ desktop_token = None /\ port = None
    /\ \A p \in Procs : procState[p] = "unspawned"

IoFailed ==
    \/ resp.op = "write_pty" /\ resp.result = "err_write"
    \/ resp.op = "resize_pty" /\ resp.result = "err_resize"

\* C24: a write_pty whose write or flush fails and a resize_pty whose resize
\* fails return an error and do not tear the session down: writer, master
\* and alive are unchanged, the failed call keeps no lock and no terminal's
\* geometry changes, so the next call works on the same handles.
Thm_C24 ==
    [][IoFailed'
          => /\ UNCHANGED <<writer, master, alive, geometry, reader, exits>>
             /\ \A f \in PtyFields :
                  ptyLock'[f] = 0 \/ pc'[ptyLock'[f]] = "write_io"]_vars

\* A write_pty has returned Ok on the session on which an earlier write_pty
\* failed after its first byte.
Wit_C24 ==
    /\ resp.op = "write_pty"
    /\ resp.result = "ok"
    /\ writer # None
    /\ input[writer] = <<1, 1, 2>>

\* The step is the kill_sync of the exit hook.
KillSyncStep == ~appExit /\ appExit'

\* C25: kill_sync, in whatever state the exit hook finds the supervisor,
\* is one step that waits for no process (none is reaped by it and no task
\* is held up); with a child stored it signals that child's process group,
\* once, and no other; with none stored it signals nothing; in both cases
\* it leaves child None and the locks as they were.
Thm_C25 ==
    [][KillSyncStep
          => /\ child' = None
             /\ termSent' = IF child # None THEN termSent \cup {child}
                                             ELSE termSent
             /\ child # None => child \notin termSent
             /\ \A p \in Procs :
                  procState'[p] = "reaped" => procState[p] = "reaped"
             /\ UNCHANGED <<pc, lockOwner, desktop_token, port>>]_vars

\* The exit hook has run while a backend was stored and a command was in
\* flight: the group of that backend was signalled, child is None.
Wit_C25 ==
    /\ appExit
    /\ termSent # {}
    /\ child = None
    /\ ~Quiescent

\* The backend processes that run and have been sent no kill.
Live == {p \in Procs : procState[p] = "running"}

\* C26: whenever no supervisor operation is in progress, every backend
\* process that start_server spawned and that has neither exited nor been
\* sent a kill is the one whose handle is stored in ServerState.child, so
\* there is at most one.
Thm_C26 ==
    Quiescent => /\ \A p \in Live : child = p
                 /\ Cardinality(Live) <= 1

\* Two start_server calls raced: the handle stored first was overwritten
\* and its process killed; the other process runs and is the stored child.
Wit_C26 ==
    /\ Quiescent
    /\ child # None
    /\ procState[child] = "running"
    /\ \E p \in Procs \ {child} : procState[p] = "killed"
    /\ StartReturnedOk

====
